---- MODULE Spec2Model ----
(***************************************************************************)
(* Credit ledger of pareo-api: the credit_balances / credit_transactions / *)
(* credit_invoices tables and the three request handlers that write them   *)
(* (ClerkUserSyncService.sync_new_user, CreditService.spend_credits,       *)
(* PaymentService.handle_webhook_event), each request running              *)
(* concurrently with the others.  Every repository method opens its own    *)
(* session (DatabaseSessionManager.session), so a handler is a sequence of *)
(* separate database transactions; inside add_credits the SELECT of the    *)
(* balance row takes no lock, so the read and the commit are two steps.    *)
(***************************************************************************)
EXTENDS Integers, Sequences, FiniteSets, TLC

\* ---- bounds of the model ----
MaxProcs == 3       \* concurrent requests handled in one behaviour
MaxUsers == 2       \* distinct accounts (Clerk identities)
MaxAmount == 2      \* spend amounts range over 1..MaxAmount
MaxEvents == 3      \* distinct payment intents confirmed by the processor
BonusValue == 2     \* value of the signup_bonus configuration row when active
MaxPage == 3        \* page numbers requested range over 1..MaxPage
MaxLimit == 2       \* page sizes requested range over 1..MaxLimit
MaxPackages == 3    \* rows of credit_packages
HistoryBonus == 21  \* signup_bonus of the configuration in the history specification

Procs == 1..MaxProcs
Users == 1..MaxUsers
Amounts == 1..MaxAmount
PaymentIntents == 1..MaxEvents

\* ---- TransactionType (models/credits.py) ----
PURCHASE == "purchase"
USAGE == "usage"
SIGNUP_BONUS == "signup_bonus"

\* ---- HTTP status codes raised by the endpoints ----
HTTP_200_OK == 200
HTTP_307_TEMPORARY_REDIRECT == 307
HTTP_400_BAD_REQUEST == 400
HTTP_402_PAYMENT_REQUIRED == 402
HTTP_404_NOT_FOUND == 404
HTTP_500_INTERNAL_SERVER_ERROR == 500

VARIABLES
    users,                \* set of user ids that have a users row
    credit_balances,      \* user id -> CreditBalance row, or NoBalance
    credit_transactions,  \* sequence of CreditTransaction rows, in commit order
    credit_invoices,      \* sequence of Invoice rows, in commit order
    signup_bonus,         \* value get_signup_bonus returns (0: no active row)
    procs,                \* request slot -> position and locals of its handler
    payment_intents,      \* PaymentIntent objects held by Stripe, in creation order
    deleted_users         \* user ids whose users row has deleted_at set

vars == <<users, credit_balances, credit_transactions, credit_invoices, signup_bonus, procs,
          payment_intents, deleted_users>>

NoBalance == [exists |-> FALSE, balance |-> 0, lifetime_credits |-> 0]

\* CreditBalance(user_id, balance, lifetime_credits)
CreditBalance(balance, lifetime_credits) ==
    [exists |-> TRUE, balance |-> balance, lifetime_credits |-> lifetime_credits]

CreditTransactionFixedId(user_id, amount, balance_after, transaction_type, payment_intent_id) ==
    [id |-> 1, user_id |-> user_id, amount |-> amount,
     balance_after |-> balance_after, transaction_type |-> transaction_type,
     payment_intent_id |-> payment_intent_id]

\* CreditTransaction(...): id is a fresh uuid4, modelled by the row's position;
\* payment_intent_id is transaction_metadata["payment_intent_id"], 0 when the
\* metadata is None.
CreditTransaction(user_id, amount, balance_after, transaction_type, payment_intent_id) ==
    [id |-> Len(credit_transactions) + 1, user_id |-> user_id, amount |-> amount,
     balance_after |-> balance_after, transaction_type |-> transaction_type,
     payment_intent_id |-> payment_intent_id]

\* Invoice(user_id, transaction_id, stripe_invoice_id): id and the Stripe
\* invoice id are fresh, modelled by the row's position.
Invoice(user_id, transaction_id) ==
    [id |-> Len(credit_invoices) + 1, user_id |-> user_id,
     transaction_id |-> transaction_id, stripe_invoice_id |-> Len(credit_invoices) + 1]

\* The payment intent the processor confirms: create_payment_intent put the
\* buyer's user id and the package's credits into its metadata.
PaymentIntentUser(pi) == ((pi - 1) % MaxUsers) + 1
PaymentIntentCredits(pi) == pi

IdleProc ==
    [pc |-> "idle", op |-> "none", user_id |-> 0, amount |-> 0, payment_intent_id |-> 0,
     checked_balance |-> 0, balance |-> 0, lifetime_credits |-> 0, transaction_id |-> 0,
     result |-> "none", status_code |-> 0, remaining_credits |-> 0,
     package_id |-> 0, client_secret |-> 0, currency |-> "none"]

\* the handler of slot p returns (or raises): the slot keeps its outcome
Finish(p, result, status_code) ==
    [procs[p] EXCEPT !.pc = "done", !.result = result, !.status_code = status_code]

\* str(e) of an exception is modelled as the sequence of its parts; "x in
\* str(e)" asks whether x is one of them.
INSUFFICIENT_CREDITS == "Insufficient credits"
BALANCE_NOT_FOUND == "Credit balance not found"
DATABASE_ERROR == "database error"

Contains(detail, text) == \E i \in DOMAIN detail : detail[i] = text

\* RepositoryError(f"Failed to ...: {e}") raised by a repository method
RepositoryError(what) == <<what, DATABASE_ERROR>>

\* spend_credits: both except clauses raise
\* CreditOperationError(f"Failed to spend credits: {e}")
SpendCreditsError(e) == <<"Failed to spend credits: ">> \o e

SpendErrorStatusAlways402(detail) == HTTP_402_PAYMENT_REQUIRED

\* POST /spend: 402 if "Insufficient credits" in str(e), else 500
SpendErrorStatus(detail) ==
    IF Contains(detail, INSUFFICIENT_CREDITS)
    THEN HTTP_402_PAYMENT_REQUIRED
    ELSE HTTP_500_INTERNAL_SERVER_ERROR

\* the exception add_credits raised reaches the caller of the running handler:
\* spend_credits wraps it in CreditOperationError (endpoint: 500), the Stripe
\* webhook endpoint turns any exception into 400
AddCreditsErrorStatus(op) ==
    IF op = "spend"
    THEN SpendErrorStatus(SpendCreditsError(RepositoryError("Failed to add credits: ")))
    ELSE HTTP_400_BAD_REQUEST

Init ==
    /\ users = {}
    /\ credit_balances = [u \in Users |-> NoBalance]
    /\ credit_transactions = <<>>
    /\ credit_invoices = <<>>
    /\ signup_bonus \in {0, BonusValue}
    /\ procs = [p \in Procs |-> IdleProc]
    /\ payment_intents = <<>>
    /\ deleted_users = {}

\* slots are taken in order: the requests are interchangeable
CanStart(p) ==
    /\ procs[p].pc = "idle"
    /\ \A q \in Procs : q < p => procs[q].pc # "idle"

\* ================= CreditRepository.add_credits =================
NewBalanceSignSlip(balance, amount) == balance - amount

\* new_balance = balance.balance + amount
NewBalance(balance, amount) == balance + amount

\* balance.lifetime_credits += amount if amount > 0 else 0
NewLifetimeCredits(lifetime_credits, amount) ==
    lifetime_credits + (IF amount > 0 THEN amount ELSE 0)

AddCreditsSelectMissingRowAsZero(rec) ==
    LET row == credit_balances[rec.user_id] IN
    [rec EXCEPT !.pc = "add_commit", !.balance = row.balance,
                !.lifetime_credits = row.lifetime_credits]

\* The SELECT of the balance row (no FOR UPDATE, default isolation level):
\* the row as committed at this instant is loaded into the session, or the
\* method raises RepositoryError when there is none.
AddCreditsSelect(rec) ==
    LET row == credit_balances[rec.user_id] IN
    IF ~row.exists
    THEN [rec EXCEPT !.pc = "done", !.result = "repository_error",
                     !.status_code = AddCreditsErrorStatus(rec.op)]
    ELSE [rec EXCEPT !.pc = "add_commit", !.balance = row.balance,
                     !.lifetime_credits = row.lifetime_credits]

AddCreditsReturnedStaleBalance(rec, transaction) ==
    IF rec.op = "spend"
    THEN [rec EXCEPT !.pc = "done", !.result = "ok", !.status_code = HTTP_200_OK,
                     !.transaction_id = transaction.id,
                     !.remaining_credits = rec.balance]
    ELSE [rec EXCEPT !.pc = "invoicing", !.transaction_id = transaction.id]

\* what the caller does with the transaction add_credits returned
AddCreditsReturned(rec, transaction) ==
    IF rec.op = "spend"
    THEN \* SpendCreditsResponse(success, remaining_credits, transaction_id)
         [rec EXCEPT !.pc = "done", !.result = "ok", !.status_code = HTTP_200_OK,
                     !.transaction_id = transaction.id,
                     !.remaining_credits = transaction.balance_after]
    ELSE \* handle_webhook_event goes on with the invoicing block
         [rec EXCEPT !.pc = "invoicing", !.transaction_id = transaction.id]

AddCreditsCommitUpsertsLast(p) ==
    LET rec == procs[p]
        new_balance == NewBalance(rec.balance, rec.amount)
        new_lifetime == NewLifetimeCredits(rec.lifetime_credits, rec.amount)
        transaction == CreditTransaction(rec.user_id, rec.amount, new_balance,
                                         IF rec.op = "spend" THEN USAGE ELSE PURCHASE,
                                         rec.payment_intent_id)
        n == Len(credit_transactions)
    IN
    /\ rec.pc = "add_commit"
    /\ credit_balances' =
         [credit_balances EXCEPT
            ![rec.user_id].balance = new_balance,
            ![rec.user_id].lifetime_credits =
                IF new_lifetime # rec.lifetime_credits THEN new_lifetime ELSE @]
    /\ credit_transactions' =
         IF n > 0 /\ credit_transactions[n].user_id = rec.user_id
         THEN [credit_transactions EXCEPT ![n] = [transaction EXCEPT !.id = n]]
         ELSE Append(credit_transactions, transaction)
    /\ procs' = [procs EXCEPT ![p] =
         AddCreditsReturned(rec, IF n > 0 /\ credit_transactions[n].user_id = rec.user_id
                                 THEN [transaction EXCEPT !.id = n] ELSE transaction)]
    /\ UNCHANGED <<users, credit_invoices, signup_bonus, payment_intents, deleted_users>>

\* session.commit(): the flush writes the values computed from the row this
\* session loaded (UPDATE credit_balances SET balance = :new_balance, and
\* lifetime_credits only when its value changed), inserts the transaction
\* row, and both become visible together.
AddCreditsCommit(p) ==
    LET rec == procs[p]
        new_balance == NewBalance(rec.balance, rec.amount)
        new_lifetime == NewLifetimeCredits(rec.lifetime_credits, rec.amount)
        transaction == CreditTransaction(rec.user_id, rec.amount, new_balance,
                                         IF rec.op = "spend" THEN USAGE ELSE PURCHASE,
                                         rec.payment_intent_id)
    IN
    /\ rec.pc = "add_commit"
    /\ credit_balances' =
         [credit_balances EXCEPT
            ![rec.user_id].balance = new_balance,
            ![rec.user_id].lifetime_credits =
                IF new_lifetime # rec.lifetime_credits THEN new_lifetime ELSE @]
    /\ credit_transactions' = Append(credit_transactions, transaction)
    /\ procs' = [procs EXCEPT ![p] = AddCreditsReturned(rec, transaction)]
    /\ UNCHANGED <<users, credit_invoices, signup_bonus, payment_intents, deleted_users>>

\* session.refresh(transaction) raises SQLAlchemyError after session.commit()
\* returned: the balance update and the transaction row are committed, and
\* add_credits raises RepositoryError to its caller all the same.
AddCreditsRefreshFails(p) ==
    LET rec == procs[p]
        new_balance == NewBalance(rec.balance, rec.amount)
        new_lifetime == NewLifetimeCredits(rec.lifetime_credits, rec.amount)
        transaction == CreditTransaction(rec.user_id, rec.amount, new_balance,
                                         IF rec.op = "spend" THEN USAGE ELSE PURCHASE,
                                         rec.payment_intent_id)
    IN
    /\ rec.pc = "add_commit"
    /\ credit_balances' =
         [credit_balances EXCEPT
            ![rec.user_id].balance = new_balance,
            ![rec.user_id].lifetime_credits =
                IF new_lifetime # rec.lifetime_credits THEN new_lifetime ELSE @]
    /\ credit_transactions' = Append(credit_transactions, transaction)
    /\ procs' = [procs EXCEPT ![p] =
                    Finish(p, "repository_error_after_commit", AddCreditsErrorStatus(rec.op))]
    /\ UNCHANGED <<users, credit_invoices, signup_bonus, payment_intents, deleted_users>>

AddCreditsFailsKeepsBalanceUpdate(p) ==
    LET rec == procs[p] IN
    /\ rec.pc \in {"add_credits", "add_commit"}
    /\ credit_balances' =
         IF rec.pc = "add_commit"
         THEN [credit_balances EXCEPT
                  ![rec.user_id].balance = NewBalance(rec.balance, rec.amount)]
         ELSE credit_balances
    /\ procs' = [procs EXCEPT ![p] =
                    Finish(p, "repository_error", AddCreditsErrorStatus(rec.op))]
    /\ UNCHANGED <<users, credit_transactions, credit_invoices, signup_bonus, payment_intents, deleted_users>>

\* SQLAlchemyError in execute or commit: the session is rolled back and
\* RepositoryError is raised; nothing of the unit of work is visible.
AddCreditsFails(p) ==
    /\ procs[p].pc \in {"add_credits", "add_commit"}
    /\ procs' = [procs EXCEPT ![p] =
                    Finish(p, "repository_error", AddCreditsErrorStatus(procs[p].op))]
    /\ UNCHANGED <<users, credit_balances, credit_transactions, credit_invoices, signup_bonus, payment_intents, deleted_users>>

\* ================= CreditService.spend_credits =================
InsufficientCreditsOffByOne(balance, amount) == balance + 1 < amount

\* if credit_balance.balance < amount: raise "Insufficient credits"
InsufficientCredits(balance, amount) == balance < amount

SpendCreditsMissingRowAsZero(p, u, a) ==
    LET row == credit_balances[u]
        rec == [IdleProc EXCEPT !.op = "spend", !.user_id = u, !.amount = -a,
                                !.checked_balance = row.balance]
    IN
    /\ CanStart(p)
    /\ u \in users
    /\ procs' = [procs EXCEPT ![p] =
         IF InsufficientCredits(row.balance, a)
         THEN [rec EXCEPT !.pc = "done", !.result = "insufficient_credits",
                          !.status_code =
                              SpendErrorStatus(SpendCreditsError(<<INSUFFICIENT_CREDITS>>))]
         ELSE [rec EXCEPT !.pc = "add_credits"]]
    /\ UNCHANGED <<users, credit_balances, credit_transactions, credit_invoices, signup_bonus, payment_intents, deleted_users>>

\* POST /spend by an authenticated user: get_credit_balance and the two checks.
SpendCredits(p, u, a) ==
    LET row == credit_balances[u]
        rec == [IdleProc EXCEPT !.op = "spend", !.user_id = u, !.amount = -a,
                                !.checked_balance = row.balance]
    IN
    /\ CanStart(p)
    /\ u \in users
    /\ procs' = [procs EXCEPT ![p] =
         IF ~row.exists
         THEN [rec EXCEPT !.pc = "done", !.result = "balance_not_found",
                          !.status_code =
                              SpendErrorStatus(SpendCreditsError(<<BALANCE_NOT_FOUND>>))]
         ELSE IF InsufficientCredits(row.balance, a)
         THEN [rec EXCEPT !.pc = "done", !.result = "insufficient_credits",
                          !.status_code =
                              SpendErrorStatus(SpendCreditsError(<<INSUFFICIENT_CREDITS>>))]
         ELSE [rec EXCEPT !.pc = "add_credits"]]
    /\ UNCHANGED <<users, credit_balances, credit_transactions, credit_invoices, signup_bonus, payment_intents, deleted_users>>

\* get_credit_balance raises RepositoryError
SpendCreditsReadFails(p, u, a) ==
    /\ CanStart(p)
    /\ u \in users
    /\ procs' = [procs EXCEPT ![p] =
         [IdleProc EXCEPT !.op = "spend", !.user_id = u, !.amount = -a, !.pc = "done",
                          !.result = "repository_error",
                          !.status_code = SpendErrorStatus(SpendCreditsError(
                              RepositoryError("Failed to fetch credit balance: ")))]]
    /\ UNCHANGED <<users, credit_balances, credit_transactions, credit_invoices, signup_bonus, payment_intents, deleted_users>>

\* spend_credits calls add_credits(user_id, -amount, USAGE, "Credits spent")
SpendAddCredits(p) ==
    /\ procs[p].pc = "add_credits"
    /\ procs' = [procs EXCEPT ![p] = AddCreditsSelect(procs[p])]
    /\ UNCHANGED <<users, credit_balances, credit_transactions, credit_invoices, signup_bonus, payment_intents, deleted_users>>

\* ================= PaymentService.create_payment_intent =================
\* credit_packages: the rows 1..MaxPackages; no code path writes the table.
\* The last row has been deactivated; price is 5 cents per credit as in the
\* seeded starter packs, in usd or eur.
Packages == 1..MaxPackages
PackageIds == 0..MaxPackages

CreditPackage(package_id) ==
    [credits |-> package_id,
     price_cents |-> 5 * package_id,
     currency |-> IF package_id % 2 = 1 THEN "usd" ELSE "eur",
     is_active |-> package_id # MaxPackages]

\* stripe.PaymentIntent.create(amount, currency, metadata): the object Stripe
\* keeps; its client_secret is derived from its id
StripePaymentIntent(id, amount, currency, user_id, package_id, credits) ==
    [id |-> id, client_secret |-> id, amount |-> amount, currency |-> currency,
     metadata |-> [user_id |-> user_id, package_id |-> package_id, credits |-> credits]]

CreatePaymentIntentSkipsActiveCheck(p, u, package_id) ==
    LET rec == [IdleProc EXCEPT !.op = "create_payment_intent", !.user_id = u,
                                !.package_id = package_id, !.pc = "done"]
        credit_package == CreditPackage(package_id)
        intent == StripePaymentIntent(Len(payment_intents) + 1, credit_package.price_cents,
                                      credit_package.currency, u, package_id,
                                      credit_package.credits)
    IN
    /\ CanStart(p)
    /\ u \in users
    /\ IF package_id \notin Packages
       THEN /\ procs' = [procs EXCEPT ![p] =
                   [rec EXCEPT !.result = "package_not_found",
                               !.status_code = HTTP_404_NOT_FOUND]]
            /\ UNCHANGED payment_intents
       ELSE /\ payment_intents' = Append(payment_intents, intent)
            /\ procs' = [procs EXCEPT ![p] =
                   [rec EXCEPT !.result = "ok", !.status_code = HTTP_200_OK,
                               !.client_secret = intent.client_secret,
                               !.amount = intent.amount,
                               !.currency = intent.currency]]
    /\ UNCHANGED <<users, credit_balances, credit_transactions, credit_invoices, signup_bonus,
                   deleted_users>>

\* POST /create-intent by an authenticated user: get_credit_package, the two
\* checks, the Stripe call and the response built from the intent.
CreatePaymentIntent(p, u, package_id) ==
    LET rec == [IdleProc EXCEPT !.op = "create_payment_intent", !.user_id = u,
                                !.package_id = package_id, !.pc = "done"]
        credit_package == CreditPackage(package_id)
        intent == StripePaymentIntent(Len(payment_intents) + 1, credit_package.price_cents,
                                      credit_package.currency, u, package_id,
                                      credit_package.credits)
    IN
    /\ CanStart(p)
    /\ u \in users
    /\ IF package_id \notin Packages
       THEN /\ procs' = [procs EXCEPT ![p] =
                   [rec EXCEPT !.result = "package_not_found",
                               !.status_code = HTTP_404_NOT_FOUND]]
            /\ UNCHANGED payment_intents
       ELSE IF ~credit_package.is_active
       THEN /\ procs' = [procs EXCEPT ![p] =
                   [rec EXCEPT !.result = "package_not_active",
                               !.status_code = HTTP_400_BAD_REQUEST]]
            /\ UNCHANGED payment_intents
       ELSE /\ payment_intents' = Append(payment_intents, intent)
            /\ procs' = [procs EXCEPT ![p] =
                   [rec EXCEPT !.result = "ok", !.status_code = HTTP_200_OK,
                               !.client_secret = intent.client_secret,
                               !.amount = intent.amount,
                               !.currency = intent.currency]]
    /\ UNCHANGED <<users, credit_balances, credit_transactions, credit_invoices, signup_bonus,
                   deleted_users>>

\* stripe.PaymentIntent.create raises StripeError for an active package: 400,
\* no intent exists
CreatePaymentIntentStripeError(p, u, package_id) ==
    /\ CanStart(p)
    /\ u \in users
    /\ package_id \in Packages
    /\ CreditPackage(package_id).is_active
    /\ procs' = [procs EXCEPT ![p] =
         [IdleProc EXCEPT !.op = "create_payment_intent", !.user_id = u,
                          !.package_id = package_id, !.pc = "done",
                          !.result = "stripe_error",
                          !.status_code = HTTP_400_BAD_REQUEST]]
    /\ UNCHANGED <<users, credit_balances, credit_transactions, credit_invoices, signup_bonus,
                   payment_intents, deleted_users>>

\* get_credit_package raises RepositoryError, which no handler catches: 500
CreatePaymentIntentReadFails(p, u, package_id) ==
    /\ CanStart(p)
    /\ u \in users
    /\ procs' = [procs EXCEPT ![p] =
         [IdleProc EXCEPT !.op = "create_payment_intent", !.user_id = u,
                          !.package_id = package_id, !.pc = "done",
                          !.result = "repository_error",
                          !.status_code = HTTP_500_INTERNAL_SERVER_ERROR]]
    /\ UNCHANGED <<users, credit_balances, credit_transactions, credit_invoices, signup_bonus,
                   payment_intents, deleted_users>>

\* ================= PaymentService.handle_webhook_event =================
\* A payment_intent.succeeded event for intent pi is delivered (the processor
\* delivers at least once, so any intent may be delivered again): the handler
\* calls add_credits(user_id, credits, PURCHASE, ..., {payment_intent_id, ...}).
PaymentIntentSucceeded(p, pi, user_id, credits) ==
    /\ CanStart(p)
    /\ user_id \in users
    /\ procs' = [procs EXCEPT ![p] =
         AddCreditsSelect([IdleProc EXCEPT !.op = "webhook",
                                           !.user_id = user_id,
                                           !.amount = credits,
                                           !.payment_intent_id = pi])]
    /\ UNCHANGED <<users, credit_balances, credit_transactions, credit_invoices, signup_bonus, payment_intents, deleted_users>>

\* the event of one of the intents 1..MaxEvents, whose metadata name the user
\* PaymentIntentUser(pi) and the credits PaymentIntentCredits(pi)
HandleWebhookEvent(p, pi) ==
    PaymentIntentSucceeded(p, pi, PaymentIntentUser(pi), PaymentIntentCredits(pi))

\* the event of an intent create_payment_intent created, with its metadata
HandleCreatedIntentEvent(p, pi) ==
    /\ pi \in DOMAIN payment_intents
    /\ PaymentIntentSucceeded(p, pi, payment_intents[pi].metadata.user_id,
                              payment_intents[pi].metadata.credits)

CreateInvoiceBeforeGrant(p) ==
    /\ procs[p].op = "webhook"
    /\ procs[p].pc = "add_commit"
    /\ credit_invoices' = Append(credit_invoices,
                                 Invoice(procs[p].user_id, Len(credit_transactions) + 1))
    /\ procs' = [procs EXCEPT ![p] = Finish(p, "ok", HTTP_200_OK)]
    /\ UNCHANGED <<users, credit_balances, credit_transactions, signup_bonus, payment_intents, deleted_users>>

\* The invoicing block succeeds: billing info found, the Stripe customer,
\* invoice item and invoice calls return, and create_invoice commits the
\* Invoice row for the transaction add_credits returned.
CreateInvoice(p) ==
    /\ procs[p].pc = "invoicing"
    /\ credit_invoices' = Append(credit_invoices,
                                 Invoice(procs[p].user_id, procs[p].transaction_id))
    /\ procs' = [procs EXCEPT ![p] = Finish(p, "ok", HTTP_200_OK)]
    /\ UNCHANGED <<users, credit_balances, credit_transactions, signup_bonus, payment_intents, deleted_users>>

InvoicingFailsRollsBack(p) ==
    LET rec == procs[p] IN
    /\ rec.pc = "invoicing"
    /\ credit_transactions' = SelectSeq(credit_transactions,
                                        LAMBDA t: t.id # rec.transaction_id)
    /\ credit_balances' = [credit_balances EXCEPT
                              ![rec.user_id].balance = @ - rec.amount,
                              ![rec.user_id].lifetime_credits = @ - rec.amount]
    /\ procs' = [procs EXCEPT ![p] = Finish(p, "invoicing_error", HTTP_400_BAD_REQUEST)]
    /\ UNCHANGED <<users, credit_invoices, signup_bonus, payment_intents, deleted_users>>

\* The invoicing block raises (get_billing_model finds no billing info, a
\* Stripe call errors, or create_invoice fails): the except clause logs and
\* re-raises, the endpoint answers 400.  add_credits committed in its own
\* session before, so there is nothing to roll back.
InvoicingFails(p) ==
    /\ procs[p].pc = "invoicing"
    /\ procs' = [procs EXCEPT ![p] = Finish(p, "invoicing_error", HTTP_400_BAD_REQUEST)]
    /\ UNCHANGED <<users, credit_balances, credit_transactions, credit_invoices, signup_bonus, payment_intents, deleted_users>>

\* ================= ClerkUserSyncService.sync_new_user =================
SyncNewUserGrantsAgain(p, u) ==
    /\ CanStart(p)
    /\ procs' = [procs EXCEPT ![p] =
         IF u \in users
         THEN [IdleProc EXCEPT !.op = "sync", !.user_id = u, !.amount = BonusValue,
                               !.pc = "create_credit_transaction"]
         ELSE [IdleProc EXCEPT !.op = "sync", !.user_id = u, !.pc = "create_user"]]
    /\ deleted_users' = deleted_users \ {u}
    /\ UNCHANGED <<users, credit_balances, credit_transactions, credit_invoices, signup_bonus,
                   payment_intents>>

\* user.created for the Clerk identity u: get_user_by_email finds an existing
\* user (reactivate_user clears deleted_at, return its id) or none (go on to
\* create one).
SyncNewUser(p, u) ==
    /\ CanStart(p)
    /\ procs' = [procs EXCEPT ![p] =
         IF u \in users
         THEN [IdleProc EXCEPT !.op = "sync", !.user_id = u, !.pc = "done",
                               !.result = "reactivated", !.status_code = HTTP_200_OK]
         ELSE [IdleProc EXCEPT !.op = "sync", !.user_id = u, !.pc = "create_user"]]
    /\ deleted_users' = deleted_users \ {u}
    /\ UNCHANGED <<users, credit_balances, credit_transactions, credit_invoices, signup_bonus,
                   payment_intents>>

\* create_user commits the users row, then get_signup_bonus reads the
\* configuration; with a bonus of 0 sync_new_user returns here.
CreateUser(p) ==
    LET rec == procs[p] IN
    /\ rec.pc = "create_user"
    /\ rec.user_id \notin users          \* clerk_id is unique
    /\ users' = users \cup {rec.user_id}
    /\ procs' = [procs EXCEPT ![p] =
         IF signup_bonus > 0
         THEN [rec EXCEPT !.pc = "create_credit_balance", !.amount = signup_bonus]
         ELSE [rec EXCEPT !.pc = "done", !.result = "created", !.status_code = HTTP_200_OK]]
    /\ UNCHANGED <<credit_balances, credit_transactions, credit_invoices, signup_bonus, payment_intents, deleted_users>>

CreateCreditBalanceNoLifetime(p) ==
    LET rec == procs[p] IN
    /\ rec.pc = "create_credit_balance"
    /\ ~credit_balances[rec.user_id].exists
    /\ credit_balances' = [credit_balances EXCEPT
                              ![rec.user_id] = CreditBalance(rec.amount, 0)]
    /\ procs' = [procs EXCEPT ![p].pc = "create_credit_transaction"]
    /\ UNCHANGED <<users, credit_transactions, credit_invoices, signup_bonus, payment_intents, deleted_users>>

\* create_credit_balance(user_id, signup_bonus, signup_bonus) commits
CreateCreditBalance(p) ==
    LET rec == procs[p] IN
    /\ rec.pc = "create_credit_balance"
    /\ ~credit_balances[rec.user_id].exists   \* user_id is the primary key
    /\ credit_balances' = [credit_balances EXCEPT
                              ![rec.user_id] = CreditBalance(rec.amount, rec.amount)]
    /\ procs' = [procs EXCEPT ![p].pc = "create_credit_transaction"]
    /\ UNCHANGED <<users, credit_transactions, credit_invoices, signup_bonus, payment_intents, deleted_users>>

\* create_credit_transaction(user_id, signup_bonus, signup_bonus, SIGNUP_BONUS, ...)
\* commits, and sync_new_user returns the new user's id
CreateCreditTransaction(p) ==
    LET rec == procs[p]
        transaction == CreditTransaction(rec.user_id, rec.amount, rec.amount, SIGNUP_BONUS, 0)
    IN
    /\ rec.pc = "create_credit_transaction"
    /\ credit_transactions' = Append(credit_transactions, transaction)
    /\ procs' = [procs EXCEPT ![p] =
         [rec EXCEPT !.pc = "done", !.result = "created", !.status_code = HTTP_200_OK,
                     !.transaction_id = transaction.id]]
    /\ UNCHANGED <<users, credit_balances, credit_invoices, signup_bonus, payment_intents, deleted_users>>

\* a repository call of sync_new_user raises RepositoryError (also the unique
\* violation of a concurrent creation of the same account): UserOperationError, 500
SyncFails(p) ==
    /\ procs[p].pc \in {"create_user", "create_credit_balance", "create_credit_transaction"}
    /\ procs' = [procs EXCEPT ![p] =
                    Finish(p, "repository_error", HTTP_500_INTERNAL_SERVER_ERROR)]
    /\ UNCHANGED <<users, credit_balances, credit_transactions, credit_invoices, signup_bonus, payment_intents, deleted_users>>

\* ================= ClerkUserSyncService.sync_delete_user =================
\* user.deleted: delete_user sets deleted_at on the row with that clerk_id (no
\* row: the UPDATE matches nothing); no other table is touched.
SyncDeleteUser(p, u) ==
    /\ CanStart(p)
    /\ deleted_users' = deleted_users \cup ({u} \cap users)
    /\ procs' = [procs EXCEPT ![p] =
         [IdleProc EXCEPT !.op = "delete", !.user_id = u, !.pc = "done",
                          !.result = "deleted", !.status_code = HTTP_200_OK]]
    /\ UNCHANGED <<users, credit_balances, credit_transactions, credit_invoices, signup_bonus,
                   payment_intents>>

\* delete_user raises RepositoryError: UserOperationError, 500
SyncDeleteUserFails(p, u) ==
    /\ CanStart(p)
    /\ procs' = [procs EXCEPT ![p] =
         [IdleProc EXCEPT !.op = "delete", !.user_id = u, !.pc = "done",
                          !.result = "repository_error",
                          !.status_code = HTTP_500_INTERNAL_SERVER_ERROR]]
    /\ UNCHANGED <<users, credit_balances, credit_transactions, credit_invoices, signup_bonus,
                   payment_intents, deleted_users>>

Next ==
    \/ \E p \in Procs, u \in Users, a \in Amounts : SpendCredits(p, u, a)
    \/ \E p \in Procs, u \in Users, a \in Amounts : SpendCreditsReadFails(p, u, a)
    \/ \E p \in Procs : SpendAddCredits(p)
    \/ \E p \in Procs : AddCreditsCommit(p)
    \/ \E p \in Procs : AddCreditsRefreshFails(p)
    \/ \E p \in Procs : AddCreditsFails(p)
    \/ \E p \in Procs, pi \in PaymentIntents : HandleWebhookEvent(p, pi)
    \/ \E p \in Procs : CreateInvoice(p)
    \/ \E p \in Procs : InvoicingFails(p)
    \/ \E p \in Procs, u \in Users : SyncNewUser(p, u)
    \/ \E p \in Procs : CreateUser(p)
    \/ \E p \in Procs : CreateCreditBalance(p)
    \/ \E p \in Procs : CreateCreditTransaction(p)
    \/ \E p \in Procs : SyncFails(p)

Spec == Init /\ [][Next]_vars

\* The purchase flow from intent creation on: a confirmation is delivered only
\* for an intent that create_payment_intent created.
NextIntent ==
    \/ \E p \in Procs, u \in Users, pkg \in PackageIds : CreatePaymentIntent(p, u, pkg)
    \/ \E p \in Procs, u \in Users, pkg \in PackageIds : CreatePaymentIntentStripeError(p, u, pkg)
    \/ \E p \in Procs, u \in Users, pkg \in PackageIds : CreatePaymentIntentReadFails(p, u, pkg)
    \/ \E p \in Procs, pi \in 1..MaxProcs : HandleCreatedIntentEvent(p, pi)
    \/ \E p \in Procs, u \in Users, a \in Amounts : SpendCredits(p, u, a)
    \/ \E p \in Procs, u \in Users, a \in Amounts : SpendCreditsReadFails(p, u, a)
    \/ \E p \in Procs : SpendAddCredits(p)
    \/ \E p \in Procs : AddCreditsCommit(p)
    \/ \E p \in Procs : AddCreditsRefreshFails(p)
    \/ \E p \in Procs : AddCreditsFails(p)
    \/ \E p \in Procs : CreateInvoice(p)
    \/ \E p \in Procs : InvoicingFails(p)
    \/ \E p \in Procs, u \in Users : SyncNewUser(p, u)
    \/ \E p \in Procs : CreateUser(p)
    \/ \E p \in Procs : CreateCreditBalance(p)
    \/ \E p \in Procs : CreateCreditTransaction(p)
    \/ \E p \in Procs : SyncFails(p)

SpecIntent == Init /\ [][NextIntent]_vars

\* The account life cycle: the Clerk events user.created and user.deleted
\* next to the ledger operations.
NextAccount ==
    \/ \E p \in Procs, u \in Users : SyncDeleteUser(p, u)
    \/ \E p \in Procs, u \in Users : SyncDeleteUserFails(p, u)
    \/ Next

SpecAccount == Init /\ [][NextAccount]_vars

TypeOK ==
    /\ users \subseteq Users
    /\ \A u \in Users : credit_balances[u].exists \in BOOLEAN
    /\ \A p \in Procs : procs[p].pc \in {"idle", "add_credits", "add_commit", "invoicing",
            "create_user", "create_credit_balance", "create_credit_transaction", "done"}

\* ================= GET /transactions =================
\* the endpoint accepts page >= 1, limit in 1..100 and type in
\* ["important", "all"]; anything else is answered 400 before the service runs
Pages == 1..MaxPage
Limits == 1..MaxLimit
TypeFilters == {"important", "all"}

\* usage rows count as important only if amount < -10
ImportantUsageBelow == -10

MatchesFilterInclusive(t, user_id, type_filter) ==
    /\ t.user_id = user_id
    /\ type_filter = "important" =>
         \/ t.transaction_type \in {PURCHASE, SIGNUP_BONUS}
         \/ (t.transaction_type = USAGE /\ t.amount <= ImportantUsageBelow)

\* CreditRepository.get_transactions: the where clauses of base_query
MatchesFilter(t, user_id, type_filter) ==
    /\ t.user_id = user_id
    /\ type_filter = "important" =>
         \/ t.transaction_type \in {PURCHASE, SIGNUP_BONUS}
         \/ (t.transaction_type = USAGE /\ t.amount < ImportantUsageBelow)

BaseQuery(user_id, type_filter) ==
    SelectSeq(credit_transactions, LAMBDA t : MatchesFilter(t, user_id, type_filter))

\* order_by(created_at.desc()): rows are created in log order
OrderByCreatedAtDesc(rows) ==
    [i \in 1..Len(rows) |-> rows[Len(rows) + 1 - i]]

\* .limit(limit).offset(offset)
LimitOffset(rows, limit, offset) ==
    SubSeq(rows, offset + 1, IF offset + limit < Len(rows) THEN offset + limit ELSE Len(rows))

GetTransactions(user_id, page, limit, type_filter) ==
    LET base_query == BaseQuery(user_id, type_filter)
        offset == (page - 1) * limit
    IN [transactions |-> LimitOffset(OrderByCreatedAtDesc(base_query), limit, offset),
        total_count |-> Len(base_query)]

TotalPagesFloor(total_count, limit) == total_count \div limit

\* total_pages = (total_count + limit - 1) // limit
TotalPages(total_count, limit) == (total_count + limit - 1) \div limit

\* CreditService.get_transactions_with_usage: the transactions and the
\* pagination block of the response
GetTransactionsWithUsage(user_id, page, limit, type_filter) ==
    LET r == GetTransactions(user_id, page, limit, type_filter)
    IN [transactions |-> r.transactions,
        pagination |-> [currentPage |-> page,
                        totalPages |-> TotalPages(r.total_count, limit),
                        totalItems |-> r.total_count,
                        itemsPerPage |-> limit]]

\* ================= GET /stats =================
RECURSIVE SumOfAmounts(_)
SumOfAmounts(rows) ==
    IF rows = <<>> THEN 0 ELSE Head(rows).amount + SumOfAmounts(Tail(rows))

GetTotalPurchasedCreditsAllGrants(user_id) ==
    SumOfAmounts(SelectSeq(credit_transactions,
                           LAMBDA t : t.user_id = user_id /\ t.amount > 0))

\* CreditRepository.get_total_purchased_credits: sum(amount) of the user's
\* rows of type "purchase", 0 when there is none
GetTotalPurchasedCredits(user_id) ==
    SumOfAmounts(SelectSeq(credit_transactions,
                           LAMBDA t : t.user_id = user_id /\ t.transaction_type = PURCHASE))

\* CreditService.get_credit_stats (used_this_month, a sum over the calendar
\* month, is left out): the response, or the error when there is no balance row
GetCreditStats(user_id) ==
    LET credit_balance == credit_balances[user_id]
        total_purchased == GetTotalPurchasedCredits(user_id)
        lifetime_usage == total_purchased - credit_balance.balance
    IN IF ~credit_balance.exists
       THEN [ok |-> FALSE, available_credits |-> 0, purchased_total |-> 0,
             lifetime_usage |-> 0]
       ELSE [ok |-> TRUE, available_credits |-> credit_balance.balance,
             purchased_total |-> total_purchased, lifetime_usage |-> lifetime_usage]

\* ================= GET /billing/invoice/{invoice_id} =================
NoInvoice == [id |-> 0, user_id |-> 0, transaction_id |-> 0, stripe_invoice_id |-> 0]

\* invoice ids a request may carry: those of the rows and one of no row
InvoiceIds == 1..(MaxProcs + 1)

\* what stripe.Invoice.retrieve gives for the invoice's stripe_invoice_id
StripeOutcomes == {"invoice_pdf", "no_invoice_pdf", "stripe_error"}

BillingRepositoryGetInvoiceByIdOnly(user_id, invoice_id) ==
    LET found == {k \in DOMAIN credit_invoices : credit_invoices[k].id = invoice_id}
    IN IF found = {} THEN NoInvoice ELSE credit_invoices[CHOOSE k \in found : TRUE]

\* BillingRepository.get_invoice: the row with that id and that user_id, or
\* none (RepositoryError("Invoice not found"))
BillingRepositoryGetInvoice(user_id, invoice_id) ==
    LET found == {k \in DOMAIN credit_invoices :
                     /\ credit_invoices[k].id = invoice_id
                     /\ credit_invoices[k].user_id = user_id}
    IN IF found = {} THEN NoInvoice ELSE credit_invoices[CHOOSE k \in found : TRUE]

\* CreditRepository.get_invoice: the same selection, None when there is no row
CreditRepositoryGetInvoice(user_id, invoice_id) ==
    LET found == {k \in DOMAIN credit_invoices :
                     /\ credit_invoices[k].id = invoice_id
                     /\ credit_invoices[k].user_id = user_id}
    IN IF found = {} THEN NoInvoice ELSE credit_invoices[CHOOSE k \in found : TRUE]

\* BillingService.get_invoice: the text of the BillingOperationError raised,
\* or <<>> when the invoice and its PDF URL are returned
GetInvoiceError(invoice, stripe_outcome) ==
    IF invoice = NoInvoice
    THEN <<"Failed to fetch invoice: ", "Invoice ", "not found">>
    ELSE IF stripe_outcome = "stripe_error"
    THEN <<"Failed to fetch invoice: ", "Failed to fetch invoice from Stripe: ", "stripe error">>
    ELSE IF stripe_outcome = "no_invoice_pdf"
    THEN <<"Failed to fetch invoice: ", "Invoice PDF ", "not available">>
    ELSE <<>>

\* the endpoint: redirect to the PDF, 404 if "not found" or "not available"
\* is in str(e), else 500
GetInvoice(user_id, invoice_id, stripe_outcome) ==
    LET invoice == BillingRepositoryGetInvoice(user_id, invoice_id)
        e == GetInvoiceError(invoice, stripe_outcome)
    IN IF e = <<>>
       THEN [status_code |-> HTTP_307_TEMPORARY_REDIRECT, detail |-> e,
             stripe_invoice_id |-> invoice.stripe_invoice_id]
       ELSE [status_code |-> IF Contains(e, "not found") \/ Contains(e, "not available")
                             THEN HTTP_404_NOT_FOUND
                             ELSE HTTP_500_INTERNAL_SERVER_ERROR,
             detail |-> e, stripe_invoice_id |-> 0]

\* The ledger under a configuration whose signup bonus covers a spend on each
\* side of the threshold of the "important" filter.  Only the steps of
\* requests that go through are taken: a failing request adds no row.
HistoryAmounts == {-ImportantUsageBelow, 1 - ImportantUsageBelow}

InitHistory ==
    /\ users = {}
    /\ credit_balances = [u \in Users |-> NoBalance]
    /\ credit_transactions = <<>>
    /\ credit_invoices = <<>>
    /\ signup_bonus = HistoryBonus
    /\ procs = [p \in Procs |-> IdleProc]
    /\ payment_intents = <<>>
    /\ deleted_users = {}

NextHistory ==
    \/ \E p \in Procs, u \in Users, a \in HistoryAmounts : SpendCredits(p, u, a)
    \/ \E p \in Procs : SpendAddCredits(p)
    \/ \E p \in Procs : AddCreditsCommit(p)
    \/ \E p \in Procs, pi \in PaymentIntents : HandleWebhookEvent(p, pi)
    \/ \E p \in Procs : CreateInvoice(p)
    \/ \E p \in Procs, u \in Users : SyncNewUser(p, u)
    \/ \E p \in Procs : CreateUser(p)
    \/ \E p \in Procs : CreateCreditBalance(p)
    \/ \E p \in Procs : CreateCreditTransaction(p)

SpecHistory == InitHistory /\ [][NextHistory]_vars

\* ======================= properties =======================
RECURSIVE SumAmounts(_)
SumAmounts(txs) == IF txs = <<>> THEN 0 ELSE Head(txs).amount + SumAmounts(Tail(txs))

TransactionsOf(u) == SelectSeq(credit_transactions, LAMBDA t: t.user_id = u)

LastTransaction(txs) == txs[Len(txs)]

PurchasesOf(pi) ==
    {i \in DOMAIN credit_transactions :
        /\ credit_transactions[i].transaction_type = PURCHASE
        /\ credit_transactions[i].payment_intent_id = pi}

SpendsOf(u) == {p \in Procs : procs[p].op = "spend" /\ procs[p].user_id = u}

\* C1: in every reachable state, every user's CreditBalance.balance equals
\* the sum of the amounts of that user's CreditTransaction rows.
BalanceEqualsTransactionSum ==
    \A u \in Users :
        credit_balances[u].exists =>
            credit_balances[u].balance = SumAmounts(TransactionsOf(u))

\* C2: however often the confirmation of one payment intent is delivered,
\* the log holds at most one purchase transaction for that intent (so the
\* balance is raised once).
OnePurchasePerPaymentIntent ==
    \A pi \in PaymentIntents : Cardinality(PurchasesOf(pi)) <= 1

\* C3: when the only ledger operations on a user after the signup grant B are
\* N >= B \div a spends of one amount a, all finished with success or
\* "insufficient credits", then exactly B \div a of them succeeded and the
\* balance is B - a * (B \div a).
ConcurrentSpendsFloor ==
    \A u \in Users, a \in Amounts :
        LET S == SpendsOf(u)
            B == signup_bonus
        IN  ( /\ \A p \in Procs : procs[p].pc = "done"
              /\ S # {}
              /\ Cardinality(S) >= B \div a
              /\ \A p \in S : /\ procs[p].amount = -a
                              /\ procs[p].result \in {"ok", "insufficient_credits"}
              /\ \A p \in Procs : ~(procs[p].op = "webhook" /\ procs[p].user_id = u) )
            => /\ Cardinality({p \in S : procs[p].result = "ok"}) = B \div a
               /\ credit_balances[u].balance = B - a * (B \div a)

\* C4: every add_credits commit takes effect atomically on the balance that
\* is committed at that moment: the step that appends a usage or purchase
\* transaction of amount m moves the balance from its committed value b to
\* b + m and records balance_after = b + m (no update is lost).  Stated for
\* logs in which no payment intent was credited twice.
MutationsLinearizable ==
    [][ (Len(credit_transactions') = Len(credit_transactions) + 1
         /\ LastTransaction(credit_transactions').transaction_type # SIGNUP_BONUS
         /\ OnePurchasePerPaymentIntent')
        => LET t == LastTransaction(credit_transactions')
               b == credit_balances[t.user_id].balance
           IN  /\ credit_balances'[t.user_id].balance = b + t.amount
               /\ t.balance_after = b + t.amount ]_vars

\* C5: in every committed state every user's balance is >= 0.
BalanceNonNegative ==
    \A u \in Users : credit_balances[u].balance >= 0

\* C6: a spend_credits call whose amount is greater than the user's current
\* balance ends with the insufficient-credits error (402) and changes neither
\* the balance row nor the transaction log.
RejectedSpendMutatesNothing ==
    [][ \A p \in Procs, u \in Users, a \in Amounts :
          ( /\ procs[p].pc = "idle"
            /\ procs'[p].op = "spend" /\ procs'[p].user_id = u /\ procs'[p].amount = -a
            /\ procs'[p].result # "repository_error"
            /\ credit_balances[u].exists
            /\ a > credit_balances[u].balance )
          => /\ procs'[p].pc = "done"
             /\ procs'[p].result = "insufficient_credits"
             /\ procs'[p].status_code = HTTP_402_PAYMENT_REQUIRED
             /\ procs'[p].transaction_id = 0
             /\ credit_balances' = credit_balances
             /\ credit_transactions' = credit_transactions ]_vars

\* C6 witness: a spend was rejected for an amount above the balance, and the
\* balance is the one it was checked against.
RejectedSpendSeen ==
    \E p \in Procs :
        /\ procs[p].op = "spend"
        /\ procs[p].result = "insufficient_credits"
        /\ -procs[p].amount > procs[p].checked_balance
        /\ credit_balances[procs[p].user_id].exists
        /\ credit_balances[procs[p].user_id].balance = procs[p].checked_balance

\* C7: when the invoicing step of handle_webhook_event fails, the purchase
\* grant stays: the failing step changes neither balance nor log, and the
\* purchase transaction the handler created is still in the log.
InvoicingFailureKeepsGrant ==
    [][ \A p \in Procs :
          (procs[p].pc = "invoicing" /\ procs'[p].result = "invoicing_error")
          => /\ credit_balances' = credit_balances
             /\ credit_transactions' = credit_transactions
             /\ \E i \in DOMAIN credit_transactions' :
                    LET t == credit_transactions'[i] IN
                    /\ t.id = procs[p].transaction_id
                    /\ t.user_id = procs[p].user_id
                    /\ t.transaction_type = PURCHASE
                    /\ t.amount = procs[p].amount ]_vars

\* C7 witness: a webhook handler ended in the invoicing error while its
\* purchase transaction is in the log and the balance still is the credited one.
InvoicingFailureSeen ==
    \E p \in Procs :
        /\ procs[p].op = "webhook"
        /\ procs[p].result = "invoicing_error"
        /\ \E i \in DOMAIN credit_transactions :
              /\ credit_transactions[i].id = procs[p].transaction_id
              /\ credit_transactions[i].transaction_type = PURCHASE
              /\ credit_balances[procs[p].user_id].balance
                    = credit_transactions[i].balance_after

\* C8: a payment confirmation carrying c credits, delivered when the user's
\* balance is B and lifetime_credits is L, commits exactly one new purchase
\* transaction with amount c, balance_after B + c and the payment intent id
\* in its metadata, and sets balance to B + c and lifetime_credits to L + c.
PurchaseGrantEffect ==
    [][ \A p \in Procs :
          (procs[p].op = "webhook" /\ procs[p].pc = "add_commit"
           /\ procs'[p].pc = "invoicing")
          => LET B == procs[p].balance
                 L == procs[p].lifetime_credits
                 pi == procs[p].payment_intent_id
                 c == PaymentIntentCredits(pi)
                 u == PaymentIntentUser(pi)
                 t == LastTransaction(credit_transactions')
             IN  /\ Len(credit_transactions') = Len(credit_transactions) + 1
                 /\ SubSeq(credit_transactions', 1, Len(credit_transactions))
                        = credit_transactions
                 /\ t.user_id = u
                 /\ t.transaction_type = PURCHASE
                 /\ t.amount = c
                 /\ t.balance_after = B + c
                 /\ t.payment_intent_id = pi
                 /\ procs'[p].transaction_id = t.id
                 /\ credit_balances'[u].balance = B + c
                 /\ credit_balances'[u].lifetime_credits = L + c ]_vars

\* C8 witness: the first delivery of a payment intent has been credited: its
\* single purchase transaction is the user's latest entry and the balance is
\* that entry's balance_after.
PurchaseGrantSeen ==
    \E p \in Procs :
        /\ procs[p].op = "webhook"
        /\ procs[p].pc = "invoicing"
        /\ Cardinality(PurchasesOf(procs[p].payment_intent_id)) = 1
        /\ LastTransaction(credit_transactions).id = procs[p].transaction_id
        /\ credit_balances[procs[p].user_id].balance
              = procs[p].balance + PaymentIntentCredits(procs[p].payment_intent_id)

\* C9: a spend_credits call of amount a on balance B >= a, with no other
\* mutation of the user between its balance check and its commit, appends
\* exactly one usage transaction with amount -a and balance_after B - a, sets
\* the balance to B - a, leaves lifetime_credits alone and returns
\* remaining_credits = B - a with that transaction's id.
SpendEffect ==
    [][ \A p \in Procs :
          LET u == procs[p].user_id
              a == -procs[p].amount
              B == credit_balances[u].balance
          IN
          ( /\ procs[p].op = "spend" /\ procs[p].pc = "add_commit"
            /\ procs'[p].result = "ok"
            /\ procs[p].checked_balance = B
            /\ procs[p].balance = B
            /\ procs[p].lifetime_credits = credit_balances[u].lifetime_credits )
          => LET t == LastTransaction(credit_transactions') IN
             /\ a > 0 /\ B >= a
             /\ Len(credit_transactions') = Len(credit_transactions) + 1
             /\ SubSeq(credit_transactions', 1, Len(credit_transactions))
                    = credit_transactions
             /\ t.user_id = u
             /\ t.transaction_type = USAGE
             /\ t.amount = -a
             /\ t.balance_after = B - a
             /\ credit_balances'[u].balance = B - a
             /\ credit_balances'[u].lifetime_credits = credit_balances[u].lifetime_credits
             /\ procs'[p].remaining_credits = B - a
             /\ procs'[p].transaction_id = t.id
             /\ procs'[p].status_code = HTTP_200_OK ]_vars

\* C9 witness: a spend succeeded on an undisturbed balance: its usage
\* transaction is the latest entry and the response carries the new balance.
SpendSeen ==
    \E p \in Procs :
        /\ procs[p].op = "spend"
        /\ procs[p].result = "ok"
        /\ procs[p].checked_balance = procs[p].balance
        /\ LastTransaction(credit_transactions).id = procs[p].transaction_id
        /\ LastTransaction(credit_transactions).transaction_type = USAGE
        /\ procs[p].remaining_credits = procs[p].balance + procs[p].amount
        /\ credit_balances[procs[p].user_id].balance = procs[p].remaining_credits

SignupTransactionsOf(u) ==
    {i \in DOMAIN credit_transactions :
        /\ credit_transactions[i].user_id = u
        /\ credit_transactions[i].transaction_type = SIGNUP_BONUS}

\* C10: when sync_new_user has created a new account with a configured
\* bonus b > 0, the user has a balance row and exactly one signup_bonus
\* transaction, with amount b and balance_after b; as long as that is the
\* user's only transaction, balance = b and lifetime_credits = b.
SignupGrantEffect ==
    \A p \in Procs :
        (procs[p].op = "sync" /\ procs[p].result = "created" /\ signup_bonus > 0)
        => LET u == procs[p].user_id
               b == signup_bonus
           IN  /\ credit_balances[u].exists
               /\ Cardinality(SignupTransactionsOf(u)) = 1
               /\ \A i \in SignupTransactionsOf(u) :
                      /\ credit_transactions[i].amount = b
                      /\ credit_transactions[i].balance_after = b
                      /\ credit_transactions[i].id = procs[p].transaction_id
               /\ Len(TransactionsOf(u)) = 1
                    => /\ credit_balances[u].balance = b
                       /\ credit_balances[u].lifetime_credits = b

\* C10 witness: an account was created with a positive bonus and holds it.
SignupGrantSeen ==
    \E p \in Procs :
        /\ procs[p].op = "sync"
        /\ procs[p].result = "created"
        /\ signup_bonus > 0
        /\ Len(TransactionsOf(procs[p].user_id)) = 1
        /\ credit_balances[procs[p].user_id].balance = signup_bonus

\* C11: when sync_new_user has created a new account while the configured
\* signup bonus is zero, the user has a balance row (with balance 0).
ZeroBonusStillCreatesBalance ==
    \A p \in Procs :
        (procs[p].op = "sync" /\ procs[p].result = "created" /\ signup_bonus = 0)
        => /\ credit_balances[procs[p].user_id].exists
           /\ credit_balances[procs[p].user_id].balance = 0

\* C12: for every user with a balance row and at least one transaction, the
\* balance_after of the most recently committed transaction is the balance.
LatestBalanceAfterIsBalance ==
    \A u \in Users :
        (credit_balances[u].exists /\ TransactionsOf(u) # <<>>)
        => LastTransaction(TransactionsOf(u)).balance_after = credit_balances[u].balance

\* C13: an add_credits call that fails in its balance read, flush or commit
\* leaves balance rows and log as they were, and any step that changes an
\* existing balance row also appends exactly one transaction of that user
\* whose balance_after is the new balance (both or neither).
AddCreditsAllOrNothing ==
    [][ /\ \A p \in Procs :
              (procs[p].pc \in {"add_credits", "add_commit"}
               /\ procs'[p].result = "repository_error")
              => /\ credit_balances' = credit_balances
                 /\ credit_transactions' = credit_transactions
        /\ \A u \in Users :
              (credit_balances[u].exists /\ credit_balances'[u] # credit_balances[u])
              => /\ Len(credit_transactions') = Len(credit_transactions) + 1
                 /\ SubSeq(credit_transactions', 1, Len(credit_transactions))
                        = credit_transactions
                 /\ LastTransaction(credit_transactions').user_id = u
                 /\ LastTransaction(credit_transactions').balance_after
                        = credit_balances'[u].balance ]_vars

\* C13 witness: an add_credits call of a spend failed after it had loaded the
\* balance row; the balance is the loaded one and the user has no usage entry.
AddCreditsFailureSeen ==
    \E p \in Procs :
        /\ procs[p].op = "spend"
        /\ procs[p].result = "repository_error"
        /\ procs[p].checked_balance >= -procs[p].amount
        /\ credit_balances[procs[p].user_id].exists
        /\ credit_balances[procs[p].user_id].balance = procs[p].checked_balance
        /\ \A i \in DOMAIN credit_transactions :
              credit_transactions[i].user_id = procs[p].user_id
              => credit_transactions[i].transaction_type # USAGE

\* C14: add_credits never commits a debit (negative amount) whose resulting
\* balance is negative: every debit entry has balance_after >= 0.
DebitNeverCommitsNegative ==
    \A i \in DOMAIN credit_transactions :
        credit_transactions[i].amount < 0 => credit_transactions[i].balance_after >= 0

\* C15: a spend_credits call for a user without balance row ends with the
\* balance-not-found error, answered 500 and not 402, and creates neither a
\* balance row nor a transaction.
SpendWithoutBalanceRow ==
    [][ \A p \in Procs, u \in Users, a \in Amounts :
          ( /\ procs[p].pc = "idle"
            /\ procs'[p].op = "spend" /\ procs'[p].user_id = u /\ procs'[p].amount = -a
            /\ procs'[p].result # "repository_error"
            /\ ~credit_balances[u].exists )
          => /\ procs'[p].pc = "done"
             /\ procs'[p].result = "balance_not_found"
             /\ procs'[p].status_code = HTTP_500_INTERNAL_SERVER_ERROR
             /\ procs'[p].status_code # HTTP_402_PAYMENT_REQUIRED
             /\ credit_balances' = credit_balances
             /\ credit_transactions' = credit_transactions ]_vars

\* C15 witness: a spend ended with balance-not-found and the user still has
\* neither balance row nor transactions.
SpendWithoutBalanceRowSeen ==
    \E p \in Procs :
        /\ procs[p].op = "spend"
        /\ procs[p].result = "balance_not_found"
        /\ procs[p].status_code = HTTP_500_INTERNAL_SERVER_ERROR
        /\ ~credit_balances[procs[p].user_id].exists
        /\ TransactionsOf(procs[p].user_id) = <<>>

RECURSIVE SumPositiveAmounts(_)
SumPositiveAmounts(txs) ==
    IF txs = <<>> THEN 0
    ELSE (IF Head(txs).amount > 0 THEN Head(txs).amount ELSE 0)
         + SumPositiveAmounts(Tail(txs))

\* C16: no step lowers a user's lifetime_credits, and after every step the
\* lifetime_credits of every balance row is the sum of the user's
\* positive-amount transactions.
LifetimeCreditsMonotoneSum ==
    [][ \A u \in Users :
          /\ credit_balances'[u].lifetime_credits >= credit_balances[u].lifetime_credits
          /\ credit_balances'[u].exists
               => credit_balances'[u].lifetime_credits
                    = SumPositiveAmounts(TransactionsOf(u))' ]_vars

\* C17: every step leaves the transactions written so far as they are: the
\* log after the step starts with the log before it.
LogAppendOnly ==
    [][ /\ Len(credit_transactions') >= Len(credit_transactions)
        /\ SubSeq(credit_transactions', 1, Len(credit_transactions))
              = credit_transactions ]_vars

\* C17 witness: a user's second transaction was committed after the first,
\* which is still in place.
LogGrownSeen ==
    /\ Len(credit_transactions) >= 2
    /\ credit_transactions[1].id = 1
    /\ credit_transactions[2].user_id = credit_transactions[1].user_id

\* C20: a spend request rejected for insufficient balance is answered 402; a
\* spend request that ended with a persistence failure (of the balance read
\* or of add_credits) is answered 500 and never 402.
SpendOutcomeDistinguishesFailure ==
    \A p \in Procs :
        (procs[p].op = "spend" /\ procs[p].pc = "done") =>
            /\ procs[p].result = "insufficient_credits"
                 => procs[p].status_code = HTTP_402_PAYMENT_REQUIRED
            /\ procs[p].result \in {"repository_error", "repository_error_after_commit"}
                 => /\ procs[p].status_code = HTTP_500_INTERNAL_SERVER_ERROR
                    /\ procs[p].status_code # HTTP_402_PAYMENT_REQUIRED

\* C20 witness: one spend failed in the balance read and another one failed in
\* add_credits after passing the balance check; both were answered 500.
SpendPersistenceFailuresSeen ==
    \E q, r \in Procs :
        /\ procs[q].op = "spend" /\ procs[q].result = "repository_error"
        /\ procs[q].checked_balance = 0
        /\ procs[q].status_code = HTTP_500_INTERNAL_SERVER_ERROR
        /\ procs[r].op = "spend" /\ procs[r].result = "repository_error"
        /\ procs[r].checked_balance > 0
        /\ procs[r].status_code = HTTP_500_INTERNAL_SERVER_ERROR

\* C19: for every user, page >= 1, limit and filter, totalPages of the
\* response is the ceiling of totalItems / itemsPerPage, totalItems is the
\* number of the user's transactions matching the filter, and a page beyond
\* the last one has an empty transactions list.
PaginationCorrect ==
    \A u \in users, page \in Pages, limit \in Limits, type_filter \in TypeFilters :
        LET resp == GetTransactionsWithUsage(u, page, limit, type_filter)
            pg == resp.pagination
            matching == {i \in DOMAIN credit_transactions :
                            MatchesFilter(credit_transactions[i], u, type_filter)}
        IN /\ pg.itemsPerPage = limit
           /\ pg.totalPages * pg.itemsPerPage >= pg.totalItems
           /\ (pg.totalPages - 1) * pg.itemsPerPage < pg.totalItems
           /\ pg.totalItems = Cardinality(matching)
           /\ page > pg.totalPages => resp.transactions = <<>>

\* C19 witness: a user has three transactions; with two items per page the
\* response counts 3 items on 2 pages, page 2 holds the oldest one and page 3
\* is empty.
PageBeyondLastSeen ==
    \E u \in users :
        LET second == GetTransactionsWithUsage(u, 2, 2, "all")
            third == GetTransactionsWithUsage(u, 3, 2, "all")
        IN /\ third.pagination.totalItems = 3
           /\ third.pagination.totalPages = 2
           /\ third.transactions = <<>>
           /\ Len(second.transactions) = 1
           /\ second.transactions[1].id = TransactionsOf(u)[1].id

\* the confirmations delivered so far for intent pi
ConfirmationsOf(pi) ==
    {p \in Procs : procs[p].op = "webhook" /\ procs[p].payment_intent_id = pi}

\* C18: a create_payment_intent request leaves every balance row and the
\* transaction log as they are; for a missing or inactive package it fails and
\* creates no intent; when it succeeds the package is active and the response
\* carries the client secret of the new intent and the price and currency of
\* the package; and after every step no transaction refers to an intent for
\* which no confirmation has been delivered.
CreatePaymentIntentContract ==
    [][ /\ \A p \in Procs :
             (procs[p].pc = "idle" /\ procs'[p].op = "create_payment_intent") =>
                 LET r == procs'[p]
                     credit_package == CreditPackage(r.package_id)
                 IN /\ credit_balances' = credit_balances
                    /\ credit_transactions' = credit_transactions
                    /\ r.pc = "done"
                    /\ (r.package_id \notin Packages \/ ~credit_package.is_active)
                         => /\ r.status_code # HTTP_200_OK
                            /\ payment_intents' = payment_intents
                    /\ r.status_code = HTTP_200_OK
                         => /\ r.package_id \in Packages
                            /\ Len(payment_intents') = Len(payment_intents) + 1
                            /\ r.client_secret
                                 = payment_intents'[Len(payment_intents')].client_secret
                            /\ r.amount = credit_package.price_cents
                            /\ r.currency = credit_package.currency
        /\ \A pi \in DOMAIN payment_intents' :
             ConfirmationsOf(pi)' = {}
                 => \A i \in DOMAIN credit_transactions' :
                        credit_transactions'[i].payment_intent_id # pi ]_vars

\* C18 witness: a user with the signup grant asked for an inactive package
\* (refused, no intent) and for an active one (intent 1 created, price and
\* currency returned); intent 1 is unconfirmed and the ledger still holds the
\* signup grant only.
UnconfirmedIntentSeen ==
    \E p, q \in Procs :
        /\ procs[p].op = "create_payment_intent" /\ procs[q].op = "create_payment_intent"
        /\ procs[p].result = "package_not_active"
        /\ procs[p].status_code = HTTP_400_BAD_REQUEST
        /\ procs[q].status_code = HTTP_200_OK
        /\ procs[q].user_id = procs[p].user_id
        /\ Len(payment_intents) = 1
        /\ procs[q].client_secret = payment_intents[1].client_secret
        /\ procs[q].amount = CreditPackage(procs[q].package_id).price_cents
        /\ procs[q].currency = CreditPackage(procs[q].package_id).currency
        /\ ConfirmationsOf(1) = {}
        /\ credit_balances[procs[q].user_id] = CreditBalance(BonusValue, BonusValue)
        /\ Len(credit_transactions) = 1
        /\ credit_transactions[1].transaction_type = SIGNUP_BONUS

\* the purchase transactions an invoice row refers to
InvoicedPurchases(inv) ==
    {i \in DOMAIN credit_transactions :
        /\ credit_transactions[i].id = inv.transaction_id
        /\ credit_transactions[i].transaction_type = PURCHASE
        /\ credit_transactions[i].user_id = inv.user_id}

\* C21: a confirmation handler is in its invoicing block only after its
\* purchase transaction has been committed, and every Invoice row names an
\* existing purchase transaction of the same user.
InvoiceAfterCommittedPurchase ==
    /\ \A p \in Procs :
          procs[p].pc = "invoicing" =>
              \E i \in DOMAIN credit_transactions :
                  /\ credit_transactions[i].id = procs[p].transaction_id
                  /\ credit_transactions[i].transaction_type = PURCHASE
                  /\ credit_transactions[i].user_id = procs[p].user_id
    /\ \A k \in DOMAIN credit_invoices : InvoicedPurchases(credit_invoices[k]) # {}

\* C21 witness: an Invoice row exists and names the purchase transaction its
\* handler committed.
InvoiceSeen ==
    \E p \in Procs, k \in DOMAIN credit_invoices :
        /\ procs[p].op = "webhook" /\ procs[p].result = "ok"
        /\ credit_invoices[k].transaction_id = procs[p].transaction_id
        /\ InvoicedPurchases(credit_invoices[k]) # {}

\* C22: no two Invoice rows refer to the same transaction.
OneInvoicePerTransaction ==
    \A k, l \in DOMAIN credit_invoices :
        credit_invoices[k].transaction_id = credit_invoices[l].transaction_id => k = l

\* C22 witness: the same payment intent was confirmed twice, both handlers
\* finished their invoicing, and the two Invoice rows name two transactions.
TwoInvoicesSeen ==
    \E p, q \in Procs :
        /\ p # q
        /\ procs[p].op = "webhook" /\ procs[q].op = "webhook"
        /\ procs[p].payment_intent_id = procs[q].payment_intent_id
        /\ procs[p].result = "ok" /\ procs[q].result = "ok"
        /\ Len(credit_invoices) = 2
        /\ credit_invoices[1].transaction_id # credit_invoices[2].transaction_id

\* C23: in every state, a user whose balance row holds a positive balance has
\* a signup_bonus transaction in the log.
SignupGrantAtomic ==
    \A u \in Users :
        (credit_balances[u].exists /\ credit_balances[u].balance > 0)
            => SignupTransactionsOf(u) # {}

\* C24: no step removes a balance row; a user never has more than one
\* signup_bonus transaction; and a user.created event for a known user, deleted
\* or not, ends as a reactivation that leaves every balance row and the
\* transaction log as they are.
BalanceRowCreatedOnce ==
    [][ \A u \in Users :
          /\ credit_balances[u].exists => credit_balances'[u].exists
          /\ Cardinality(SignupTransactionsOf(u))' <= 1
          /\ \A p \in Procs :
                ( /\ procs[p].pc = "idle"
                  /\ procs'[p].op = "sync" /\ procs'[p].user_id = u
                  /\ u \in users )
                => /\ procs'[p].pc = "done"
                   /\ procs'[p].result = "reactivated"
                   /\ u \notin deleted_users'
                   /\ credit_balances' = credit_balances
                   /\ credit_transactions' = credit_transactions ]_vars

\* C24 witness: a user with the signup grant was deleted and then reactivated
\* by a later user.created event; there is still one balance row and one
\* signup_bonus transaction.
ReactivationSeen ==
    \E p, q \in Procs, u \in Users :
        /\ p < q
        /\ procs[p].op = "delete" /\ procs[p].user_id = u /\ procs[p].result = "deleted"
        /\ procs[q].op = "sync" /\ procs[q].user_id = u /\ procs[q].result = "reactivated"
        /\ u \in users /\ u \notin deleted_users
        /\ credit_balances[u] = CreditBalance(BonusValue, BonusValue)
        /\ Cardinality(SignupTransactionsOf(u)) = 1

\* C25: when the handler of a confirmation credited transaction t and then
\* failed in its invoicing block, an invoice issued afterwards for the same
\* payment (one that names a transaction committed after t) comes without a
\* further purchase transaction: the payment still has exactly one.
InvoiceRetryWithoutRegrant ==
    \A p \in Procs :
        (procs[p].op = "webhook" /\ procs[p].result = "invoicing_error") =>
            \A k \in DOMAIN credit_invoices, i \in DOMAIN credit_transactions :
                ( /\ credit_transactions[i].id = credit_invoices[k].transaction_id
                  /\ credit_transactions[i].payment_intent_id = procs[p].payment_intent_id
                  /\ credit_transactions[i].id >= procs[p].transaction_id )
                => Cardinality(PurchasesOf(procs[p].payment_intent_id)) = 1

\* the rows the filter is meant to select for user u
ExpectedRows(u, type_filter) ==
    {i \in DOMAIN credit_transactions :
        /\ credit_transactions[i].user_id = u
        /\ type_filter = "important" =>
             \/ credit_transactions[i].transaction_type = PURCHASE
             \/ credit_transactions[i].transaction_type = SIGNUP_BONUS
             \/ /\ credit_transactions[i].transaction_type = USAGE
                /\ -credit_transactions[i].amount > 10}

\* position of row i among the expected rows, newest first
NewestFirstRank(i, rows) == Cardinality({j \in rows : j >= i})

\* C26: for every user, page, limit and filter, get_transactions counts
\* exactly the user's purchase, signup_bonus and usage-beyond-10 transactions
\* ("important") or all the user's transactions ("all"), and the page holds
\* exactly those of them whose newest-first position falls on that page.
FilterSelectsExactly ==
    \A u \in users, page \in Pages, limit \in Limits, type_filter \in TypeFilters :
        LET r == GetTransactions(u, page, limit, type_filter)
            expected == ExpectedRows(u, type_filter)
            on_page == {i \in expected :
                           /\ NewestFirstRank(i, expected) > (page - 1) * limit
                           /\ NewestFirstRank(i, expected) <= page * limit}
        IN /\ r.total_count = Cardinality(expected)
           /\ {r.transactions[k].id : k \in DOMAIN r.transactions}
                = {credit_transactions[i].id : i \in on_page}
           /\ Len(r.transactions) = Cardinality(on_page)

\* C26 witness: a user has the signup grant, a usage of 11 and a usage of 10;
\* "important" counts the first two, "all" counts the three.
ThresholdRowsSeen ==
    \E u \in users :
        /\ \E i, j \in DOMAIN credit_transactions :
              /\ credit_transactions[i].user_id = u /\ credit_transactions[i].amount = -11
              /\ credit_transactions[j].user_id = u /\ credit_transactions[j].amount = -10
        /\ GetTransactions(u, 1, 2, "important").total_count = 2
        /\ Len(GetTransactions(u, 1, 2, "important").transactions) = 2
        /\ \A k \in 1..2 : GetTransactions(u, 1, 2, "important").transactions[k].amount # -10
        /\ GetTransactions(u, 1, 2, "all").total_count = 3

RECURSIVE SumAmountsAt(_)
SumAmountsAt(rows) ==
    IF rows = {} THEN 0
    ELSE LET i == CHOOSE j \in rows : TRUE
         IN credit_transactions[i].amount + SumAmountsAt(rows \ {i})

PurchaseRowsOf(u) ==
    {i \in DOMAIN credit_transactions :
        /\ credit_transactions[i].user_id = u
        /\ credit_transactions[i].transaction_type = PURCHASE}

UsageRowsOf(u) ==
    {i \in DOMAIN credit_transactions :
        /\ credit_transactions[i].user_id = u
        /\ credit_transactions[i].transaction_type = USAGE}

LifetimeUsageIsTotalUsed ==
    \A u \in Users :
        credit_balances[u].exists =>
            /\ GetCreditStats(u).lifetime_usage = -SumAmountsAt(UsageRowsOf(u))
            /\ GetCreditStats(u).lifetime_usage >= 0

\* C30: for every requesting user, invoice id and Stripe outcome, the invoice
\* is returned only if a row with that id belongs to the requesting user;
\* otherwise the request is answered 404 "not found", with exactly the response
\* given for an id that names no invoice at all.
InvoiceOwnerOnly ==
    \A u \in Users, invoice_id \in InvoiceIds, o \in StripeOutcomes :
        LET r == GetInvoice(u, invoice_id, o)
            owned == {k \in DOMAIN credit_invoices :
                         /\ credit_invoices[k].id = invoice_id
                         /\ credit_invoices[k].user_id = u}
        IN /\ r.status_code = HTTP_307_TEMPORARY_REDIRECT
                => \E k \in owned : r.stripe_invoice_id = credit_invoices[k].stripe_invoice_id
           /\ CreditRepositoryGetInvoice(u, invoice_id) # NoInvoice
                => CreditRepositoryGetInvoice(u, invoice_id).user_id = u
           /\ owned = {}
                => /\ r.status_code = HTTP_404_NOT_FOUND
                   /\ Contains(r.detail, "not found")
                   /\ r.stripe_invoice_id = 0
                   /\ r = GetInvoice(u, Len(credit_invoices) + 1, o)

\* C30 witness: an invoice of one user exists; its owner is redirected to its
\* PDF and another registered user asking for the same id gets 404.
ForeignInvoiceRefusedSeen ==
    \E u, v \in users, k \in DOMAIN credit_invoices :
        /\ u # v
        /\ credit_invoices[k].user_id = u
        /\ GetInvoice(u, credit_invoices[k].id, "invoice_pdf").status_code
              = HTTP_307_TEMPORARY_REDIRECT
        /\ GetInvoice(u, credit_invoices[k].id, "invoice_pdf").stripe_invoice_id
              = credit_invoices[k].stripe_invoice_id
        /\ GetInvoice(v, credit_invoices[k].id, "invoice_pdf").status_code
              = HTTP_404_NOT_FOUND

\* C29: a payment confirmation delivered for a user without balance row ends
\* in the same step with the error of add_credits (answered 400), and leaves
\* balance rows, transactions and invoices as they are.
ConfirmationWithoutBalanceRow ==
    [][ \A p \in Procs :
          ( /\ procs[p].pc = "idle"
            /\ procs'[p].op = "webhook"
            /\ ~credit_balances[procs'[p].user_id].exists )
          => /\ procs'[p].pc = "done"
             /\ procs'[p].result = "repository_error"
             /\ procs'[p].status_code = HTTP_400_BAD_REQUEST
             /\ procs'[p].transaction_id = 0
             /\ credit_balances' = credit_balances
             /\ credit_transactions' = credit_transactions
             /\ credit_invoices' = credit_invoices ]_vars

\* C29 witness: a confirmation for a registered user without balance row has
\* failed; the user still has no balance row, no transaction and no invoice.
UncreditedConfirmationSeen ==
    \E p \in Procs :
        /\ procs[p].op = "webhook" /\ procs[p].result = "repository_error"
        /\ procs[p].payment_intent_id > 0
        /\ procs[p].user_id \in users
        /\ ~credit_balances[procs[p].user_id].exists
        /\ TransactionsOf(procs[p].user_id) = <<>>
        /\ \A k \in DOMAIN credit_invoices : credit_invoices[k].user_id # procs[p].user_id

====
